---- MODULE Spec2Model ----
(***************************************************************************)
(* The arena of src/src/graph.rs (Graph, Op, VariableData) as a state      *)
(* machine.                                                                *)
(*                                                                         *)
(* Numbers.  The code computes in f64.  The model computes in the integers *)
(* and admits only those calls whose f64 result is an integer (every f64   *)
(* operation on integers of this size is then exact): Exp is built only on *)
(* an operand of value 0, Log only on an operand of value 1, a negative    *)
(* power only on an operand of value 1 or -1, and a backward pass runs     *)
(* only when every local derivative it needs is an integer (ExactBackward).*)
(* f64 has -0.0, which compares equal to 0.0; the model has one zero.      *)
(* Indices are 0-based as in the code; node i is vars[i + 1].              *)
(***************************************************************************)
EXTENDS Integers, Sequences, FiniteSets, TLC

\* Bounds of the model: the store holds at most MaxNodes nodes, a run makes at
\* most MaxCalls calls, Pow takes an exponent in 0..MaxExp, and no node's
\* value exceeds MaxData in magnitude.
MaxNodes == 5
MaxCalls == 4
MaxExp == 2
MaxData == 16

\* vars is Graph::vars.  last records the latest call (its name, its
\* arguments, the index or length it returned, the store's size when it was
\* made) and prev the call before it; checkpoint is the caller's
\* `let checkpoint = g.len()`, panicked whether a call has panicked, calls the
\* number of calls made.
VARIABLES vars, last, prev, checkpoint, panicked, calls, ctx, pass, loop

allVars == <<vars, last, prev, checkpoint, panicked, calls, ctx, pass, loop>>

\* Option<f64>: None is the empty sequence, Some(x) the one-element sequence.
None == << >>

Some(x) == <<x>>

unwrap_or_default(g) == IF g = None THEN 0 ELSE g[1]

\* enum Op; exp is the exponent of Pow and 0 for every other tag.
OpValue == [tag |-> "Value", exp |-> 0]

OpAdd == [tag |-> "Add", exp |-> 0]

OpMul == [tag |-> "Mul", exp |-> 0]

OpPow(exp) == [tag |-> "Pow", exp |-> exp]

OpReLU == [tag |-> "ReLU", exp |-> 0]

OpExp == [tag |-> "Exp", exp |-> 0]

OpLog == [tag |-> "Log", exp |-> 0]

\* f64::powf on an integer base and an integer exponent, where the result is
\* an integer: any base with exp >= 0 (0^0 = 1), base 1 or -1 with exp < 0.
RECURSIVE powf(_, _)
powf(base, exp) ==
    IF exp = 0 THEN 1
    ELSE IF exp > 0 THEN base * powf(base, exp - 1)
    ELSE powf(base, -exp)

powfExact(base, exp) == exp >= 0 \/ base \in {1, -1}

\* Op::forward with Mul reading children_data[0] twice and ReLU passing its
\* operand through.
forward_slip(op, children_data) ==
    CASE op.tag = "Add" -> children_data[1] + children_data[2]
      [] op.tag = "Mul" -> children_data[1] * children_data[1]
      [] op.tag = "Pow" -> powf(children_data[1], op.exp)
      [] op.tag = "ReLU" -> children_data[1]
      [] op.tag = "Exp" -> 1
      [] op.tag = "Log" -> 0

\* Op::forward, and the operands on which its f64 result is an integer.
forward(op, children_data) ==
    CASE op.tag = "Add" -> children_data[1] + children_data[2]
      [] op.tag = "Mul" -> children_data[1] * children_data[2]
      [] op.tag = "Pow" -> powf(children_data[1], op.exp)
      [] op.tag = "ReLU" -> IF children_data[1] > 0 THEN children_data[1] ELSE 0
      [] op.tag = "Exp" -> 1    \* f64::exp on 0, the one operand forwardExact admits
      [] op.tag = "Log" -> 0    \* f64::ln on 1, the one operand forwardExact admits

forwardExact(op, children_data) ==
    CASE op.tag = "Pow" -> powfExact(children_data[1], op.exp)
      [] op.tag = "Exp" -> children_data[1] = 0
      [] op.tag = "Log" -> children_data[1] = 1
      [] OTHER -> TRUE

\* Op::backward.  exp * x.powf(exp - 1.0) with exp = 0 is 0.0 * (finite) = 0
\* for x # 0; out_grad / x is out_grad * x for x in {1, -1}.
\* Op::backward with Mul's two local derivatives not swapped.
backward_op_unswapped(op, children_data, out_data, out_grad) ==
    CASE op.tag = "Add" -> <<out_grad, out_grad>>
      [] op.tag = "Mul" -> <<children_data[1] * out_grad, children_data[2] * out_grad>>
      [] op.tag = "Pow" ->
           <<(IF op.exp = 0 THEN 0
              ELSE op.exp * powf(children_data[1], op.exp - 1)) * out_grad>>
      [] op.tag = "ReLU" -> <<IF out_data > 0 THEN out_grad ELSE 0>>
      [] op.tag = "Exp" -> <<out_data * out_grad>>
      [] op.tag = "Log" -> <<out_grad * children_data[1]>>
      [] op.tag = "Value" -> << >>

backward_op(op, children_data, out_data, out_grad) ==
    CASE op.tag = "Add" -> <<out_grad, out_grad>>
      [] op.tag = "Mul" -> <<children_data[2] * out_grad, children_data[1] * out_grad>>
      [] op.tag = "Pow" ->
           <<(IF op.exp = 0 THEN 0
              ELSE op.exp * powf(children_data[1], op.exp - 1)) * out_grad>>
      [] op.tag = "ReLU" -> <<IF out_data > 0 THEN out_grad ELSE 0>>
      [] op.tag = "Exp" -> <<out_data * out_grad>>
      [] op.tag = "Log" -> <<out_grad * children_data[1]>>
      [] op.tag = "Value" -> << >>

backwardExact(op, children_data) ==
    CASE op.tag = "Pow" ->
           IF op.exp = 0 THEN children_data[1] # 0
           ELSE powfExact(children_data[1], op.exp - 1)
      [] op.tag = "Log" -> children_data[1] \in {1, -1}
      [] OTHER -> TRUE

\* VariableData::new
VariableData_new(data) ==
    [data |-> data, grad |-> None, children |-> << >>, op |-> OpValue]

\* vars[idx] and the bounds check of Vec indexing.
InRange(vs, idx) == idx >= 0 /\ idx < Len(vs)

At(vs, idx) == vs[idx + 1]

\* The result of a store call: the store after it, the index it returns (-1
\* for a call that returns nothing) and whether it returned (FALSE: panic).
Ret(vs, idx) == [vars |-> vs, idx |-> idx, ok |-> TRUE]

Panic(vs) == [vars |-> vs, idx |-> -1, ok |-> FALSE]

\* Graph::variable returning the length after the push.
variable_next_index(vs, data) == Ret(Append(vs, VariableData_new(data)), Len(vs) + 1)

\* Graph::variable
variable(vs, data) == Ret(Append(vs, VariableData_new(data)), Len(vs))

\* Graph::zero_grad that skips the first node.
zero_grad_keep_first(vs) ==
    Ret([i \in 1..Len(vs) |-> IF i = 1 THEN vs[i] ELSE [vs[i] EXCEPT !.grad = None]], -1)

\* Graph::zero_grad
zero_grad(vs) == Ret([i \in 1..Len(vs) |-> [vs[i] EXCEPT !.grad = None]], -1)

\* Graph::len returning the index of the last node.
len_last_index(vs) == Len(vs) - 1

\* Graph::len
len(vs) == Len(vs)

\* Graph::truncate keeping one node fewer.
truncate_off_by_one(vs, n) == Ret(IF n < Len(vs) THEN SubSeq(vs, 1, n - 1) ELSE vs, -1)

\* Graph::truncate that also clears the gradients of the nodes it keeps.
truncate_reset(vs, n) ==
    Ret(IF n < Len(vs) THEN [i \in 1..n |-> [vs[i] EXCEPT !.grad = None]] ELSE vs, -1)

\* Graph::truncate (Vec::truncate: no effect when n >= the length)
truncate(vs, n) == Ret(IF n < Len(vs) THEN SubSeq(vs, 1, n) ELSE vs, -1)

\* Graph::push_var storing 1-based operand indices.
push_var_one_based(vs, children, op) ==
    IF \E k \in 1..Len(children) : ~InRange(vs, children[k]) THEN Panic(vs)
    ELSE LET children_data == [k \in 1..Len(children) |-> At(vs, children[k]).data]
             node == [data |-> forward(op, children_data), grad |-> None,
                      children |-> [k \in 1..Len(children) |-> children[k] + 1],
                      op |-> op]
         IN Ret(Append(vs, node), Len(vs))

\* Graph::push_var
push_var(vs, children, op) ==
    IF \E k \in 1..Len(children) : ~InRange(vs, children[k]) THEN Panic(vs)
    ELSE LET children_data == [k \in 1..Len(children) |-> At(vs, children[k]).data]
             node == [data |-> forward(op, children_data), grad |-> None,
                      children |-> children, op |-> op]
         IN Ret(Append(vs, node), Len(vs))

\* Graph::data, Graph::grad
data(vs, idx) == At(vs, idx).data

grad(vs, idx) == At(vs, idx).grad

\* Graph::set_data that also clears the node's gradient.
set_data_reset_grad(vs, idx, d) ==
    IF ~InRange(vs, idx) THEN Panic(vs)
    ELSE Ret([vs EXCEPT ![idx + 1].data = d, ![idx + 1].grad = None], -1)

\* Graph::set_data
set_data(vs, idx, d) ==
    IF ~InRange(vs, idx) THEN Panic(vs)
    ELSE Ret([vs EXCEPT ![idx + 1].data = d], -1)

\* Graph::zero_grad_single
\* Graph::zero_grad_single clearing every gradient.
zero_grad_single_all(vs, idx) ==
    IF ~InRange(vs, idx) THEN Panic(vs)
    ELSE Ret([i \in 1..Len(vs) |-> [vs[i] EXCEPT !.grad = None]], -1)

zero_grad_single(vs, idx) ==
    IF ~InRange(vs, idx) THEN Panic(vs)
    ELSE Ret([vs EXCEPT ![idx + 1].grad = None], -1)

add_op(vs, a, b) == push_var(vs, <<a, b>>, OpAdd)

mul_op(vs, a, b) == push_var(vs, <<a, b>>, OpMul)

pow_op(vs, a, exp) == push_var(vs, <<a>>, OpPow(exp))

relu_op(vs, a) == push_var(vs, <<a>>, OpReLU)

exp_op(vs, a) == push_var(vs, <<a>>, OpExp)

log_op(vs, a) == push_var(vs, <<a>>, OpLog)

\* Graph::neg_op: the -1 leaf is pushed before a is dereferenced.
neg_op(vs, a) ==
    LET minus_one == variable(vs, -1)
    IN mul_op(minus_one.vars, a, minus_one.idx)

\* Graph::sub_op with its operands exchanged (b - a).
sub_op_swapped(vs, a, b) ==
    LET neg_a == neg_op(vs, a)
    IN IF neg_a.ok THEN add_op(neg_a.vars, b, neg_a.idx) ELSE neg_a

\* Graph::sub_op
sub_op(vs, a, b) ==
    LET neg_b == neg_op(vs, b)
    IN IF neg_b.ok THEN add_op(neg_b.vars, a, neg_b.idx) ELSE neg_b

\* Graph::div_op
div_op(vs, a, b) ==
    LET b_inv == pow_op(vs, b, -1)
    IN IF b_inv.ok THEN mul_op(b_inv.vars, a, b_inv.idx) ELSE b_inv

\* The accumulate loop of backward_single with `=` in place of `+=`.
RECURSIVE accumulate_overwrite(_, _, _, _)
accumulate_overwrite(vs, children, grads, i) ==
    IF i > Len(grads) THEN vs
    ELSE accumulate_overwrite([vs EXCEPT ![children[i] + 1].grad = Some(grads[i])],
                              children, grads, i + 1)

\* Graph::backward_single: the contributions are added child by child, so a
\* child that occurs twice (a * a) receives both.
RECURSIVE accumulate(_, _, _, _)
accumulate(vs, children, grads, i) ==
    IF i > Len(grads) THEN vs
    ELSE LET child == children[i]
             g == unwrap_or_default(At(vs, child).grad) + grads[i]
         IN accumulate([vs EXCEPT ![child + 1].grad = Some(g)], children, grads, i + 1)

children_data_of(vs, a) ==
    [k \in 1..Len(At(vs, a).children) |-> At(vs, At(vs, a).children[k]).data]

\* Graph::backward_single that returns early on a zero gradient.
backward_single_skip_zero(vs, a) ==
    IF unwrap_or_default(At(vs, a).grad) = 0 THEN vs
    ELSE LET grads == backward_op(At(vs, a).op, children_data_of(vs, a), At(vs, a).data,
                                  unwrap_or_default(At(vs, a).grad))
         IN accumulate(vs, At(vs, a).children, grads, 1)

backward_single(vs, a) ==
    LET grads == backward_op(At(vs, a).op, children_data_of(vs, a), At(vs, a).data,
                             unwrap_or_default(At(vs, a).grad))
    IN accumulate(vs, At(vs, a).children, grads, 1)

\* build_topo that pushes a node before its operands (pre-order).
RECURSIVE build_topo_preorder(_, _, _)
RECURSIVE build_topo_preorder_children(_, _, _, _)
build_topo_preorder(v, st, vs) ==
    IF v \in st.visited THEN st
    ELSE build_topo_preorder_children(At(vs, v).children, 1,
             [topo |-> Append(st.topo, v), visited |-> st.visited \cup {v}], vs)

build_topo_preorder_children(children, i, st, vs) ==
    IF i > Len(children) THEN st
    ELSE build_topo_preorder_children(children, i + 1,
                                      build_topo_preorder(children[i], st, vs), vs)

\* build_topo inside Graph::backward: depth-first post-order, memoised by
\* `visited`; st is the pair (topo, visited) the recursion threads through.
RECURSIVE build_topo(_, _, _)
RECURSIVE build_topo_children(_, _, _, _)
build_topo(v, st, vs) ==
    IF v \in st.visited THEN st
    ELSE LET s1 == [st EXCEPT !.visited = @ \cup {v}]
             s2 == build_topo_children(At(vs, v).children, 1, s1, vs)
         IN [s2 EXCEPT !.topo = Append(@, v)]

build_topo_children(children, i, st, vs) ==
    IF i > Len(children) THEN st
    ELSE build_topo_children(children, i + 1, build_topo(children[i], st, vs), vs)

topo_of(vs, idx) == build_topo(idx, [topo |-> << >>, visited |-> {}], vs).topo

\* for v in topo.iter().rev() { self.backward_single(*v) }
RECURSIVE propagate(_, _, _)
propagate(vs, topo, i) ==
    IF i < 1 THEN vs
    ELSE propagate(backward_single(vs, topo[i]), topo, i - 1)

\* The seed added to the gradient the root already holds.
seed_add(vs, idx) ==
    [vs EXCEPT ![idx + 1].grad = Some(unwrap_or_default(At(vs, idx).grad) + 1)]

\* self.vars.borrow_mut()[idx].grad = Some(1.0);
seed(vs, idx) == [vs EXCEPT ![idx + 1].grad = Some(1)]

\* Graph::backward that clears every gradient before the pass.
backward_clearing(vs, idx) ==
    IF ~InRange(vs, idx) THEN Panic(vs)
    ELSE LET topo == topo_of(vs, idx)
             cleared == zero_grad(vs).vars
             seeded == [cleared EXCEPT ![idx + 1].grad = Some(1)]
         IN Ret(propagate(seeded, topo, Len(topo)), -1)

\* Graph::backward
backward(vs, idx) ==
    IF ~InRange(vs, idx) THEN Panic(vs)
    ELSE LET topo == topo_of(vs, idx)
             seeded == [vs EXCEPT ![idx + 1].grad = Some(1)]
         IN Ret(propagate(seeded, topo, Len(topo)), -1)

\* Every local derivative the pass from idx needs is an integer.
ExactBackward(vs, idx) ==
    InRange(vs, idx) =>
        LET topo == topo_of(vs, idx)
        IN \A k \in 1..Len(topo) :
               backwardExact(At(vs, topo[k]).op, children_data_of(vs, topo[k]))

(***************************************************************************)
(* The index-based Context of main.rs: the same arena with &mut self       *)
(* methods and VariableIdx arguments.                                      *)
(***************************************************************************)
\* Variable::new (main.rs)
Context_Variable_new(d) ==
    [data |-> d, grad |-> None, children |-> << >>, op |-> OpValue]

\* Context::var
Context_var(cx, d) == Ret(Append(cx, Context_Variable_new(d)), Len(cx))

\* Context::add
Context_add(cx, a, b) ==
    IF ~InRange(cx, a) \/ ~InRange(cx, b) THEN Panic(cx)
    ELSE Ret(Append(cx, [data |-> At(cx, a).data + At(cx, b).data, grad |-> None,
                         children |-> <<a, b>>, op |-> OpAdd]), Len(cx))

\* Context::mul
Context_mul(cx, a, b) ==
    IF ~InRange(cx, a) \/ ~InRange(cx, b) THEN Panic(cx)
    ELSE Ret(Append(cx, [data |-> At(cx, a).data * At(cx, b).data, grad |-> None,
                         children |-> <<a, b>>, op |-> OpMul]), Len(cx))

\* Context::pow
Context_pow(cx, a, exp) ==
    IF ~InRange(cx, a) THEN Panic(cx)
    ELSE Ret(Append(cx, [data |-> powf(At(cx, a).data, exp), grad |-> None,
                         children |-> <<a>>, op |-> OpPow(exp)]), Len(cx))

\* Context::relu
Context_relu(cx, a) ==
    IF ~InRange(cx, a) THEN Panic(cx)
    ELSE Ret(Append(cx, [data |-> IF At(cx, a).data > 0 THEN At(cx, a).data ELSE 0,
                         grad |-> None, children |-> <<a>>, op |-> OpReLU]), Len(cx))

\* Context::neg
Context_neg(cx, a) ==
    LET minus_one == Context_var(cx, -1)
    IN Context_mul(minus_one.vars, a, minus_one.idx)

\* Context::sub
Context_sub(cx, a, b) ==
    LET neg_b == Context_neg(cx, b)
    IN IF neg_b.ok THEN Context_add(neg_b.vars, a, neg_b.idx) ELSE neg_b

\* Context::div
Context_div(cx, a, b) ==
    LET b_inv == Context_pow(cx, b, -1)
    IN IF b_inv.ok THEN Context_mul(b_inv.vars, a, b_inv.idx) ELSE b_inv

\* Context::add_grad
add_grad(cx, idx, delta) ==
    [cx EXCEPT ![idx + 1].grad =
        Some((IF At(cx, idx).grad = None THEN 0 ELSE At(cx, idx).grad[1]) + delta)]

\* Context::backward with Mul's two contributions not swapped.
Context_backward_unswapped(cx, a) ==
    LET v == At(cx, a)
        g == IF v.grad = None THEN 0 ELSE v.grad[1]
    IN CASE v.op.tag = "Add" -> add_grad(add_grad(cx, v.children[1], g), v.children[2], g)
         [] v.op.tag = "Mul" ->
              LET data0 == At(cx, v.children[1]).data
                  data1 == At(cx, v.children[2]).data
              IN add_grad(add_grad(cx, v.children[1], data0 * g), v.children[2], data1 * g)
         [] v.op.tag = "Pow" ->
              LET base_data == At(cx, v.children[1]).data
              IN add_grad(cx, v.children[1],
                          (IF v.op.exp = 0 THEN 0
                           ELSE v.op.exp * powf(base_data, v.op.exp - 1)) * g)
         [] v.op.tag = "ReLU" -> add_grad(cx, v.children[1], IF v.data > 0 THEN g ELSE 0)
         [] OTHER -> cx

\* Context::backward: one node's contributions to its operands.
Context_backward(cx, a) ==
    LET v == At(cx, a)
        g == IF v.grad = None THEN 0 ELSE v.grad[1]
    IN CASE v.op.tag = "Add" -> add_grad(add_grad(cx, v.children[1], g), v.children[2], g)
         [] v.op.tag = "Mul" ->
              LET data0 == At(cx, v.children[1]).data
                  data1 == At(cx, v.children[2]).data
              IN add_grad(add_grad(cx, v.children[1], data1 * g), v.children[2], data0 * g)
         [] v.op.tag = "Pow" ->
              LET base_data == At(cx, v.children[1]).data
              IN add_grad(cx, v.children[1],
                          (IF v.op.exp = 0 THEN 0
                           ELSE v.op.exp * powf(base_data, v.op.exp - 1)) * g)
         [] v.op.tag = "ReLU" -> add_grad(cx, v.children[1], IF v.data > 0 THEN g ELSE 0)
         [] OTHER -> cx

\* build_topo inside Context::backprop
RECURSIVE Context_build_topo(_, _, _)
RECURSIVE Context_build_topo_children(_, _, _, _)
Context_build_topo(v, st, cx) ==
    IF v \in st.visited THEN st
    ELSE LET s1 == [st EXCEPT !.visited = @ \cup {v}]
             s2 == Context_build_topo_children(At(cx, v).children, 1, s1, cx)
         IN [s2 EXCEPT !.topo = Append(@, v)]

Context_build_topo_children(children, i, st, cx) ==
    IF i > Len(children) THEN st
    ELSE Context_build_topo_children(children, i + 1,
                                     Context_build_topo(children[i], st, cx), cx)

\* for v in topo.iter().rev() { self.backward(*v) }
RECURSIVE Context_propagate(_, _, _)
Context_propagate(cx, topo, i) ==
    IF i < 1 THEN cx
    ELSE Context_propagate(Context_backward(cx, topo[i]), topo, i - 1)

\* Context::backprop
Context_backprop(cx, a) ==
    IF ~InRange(cx, a) THEN Panic(cx)
    ELSE LET topo == Context_build_topo(a, [topo |-> << >>, visited |-> {}], cx).topo
             seeded == [cx EXCEPT ![a + 1].grad = Some(1)]
         IN Ret(Context_propagate(seeded, topo, Len(topo)), -1)

(***************************************************************************)
(* The state machine: one action per public call on the store, made on     *)
(* handles the store has handed out (indices below its size).              *)
(***************************************************************************)
\* The f64 values a caller passes to variable() and set_data().
Vals == {-2, 0, 1}

Handles == 0..(Len(vars) - 1)

Exps == 0..MaxExp

\* The lengths a caller passes to truncate(): below, at and above the size.
Lens == 0..(Len(vars) + 1)

Abs(x) == IF x < 0 THEN -x ELSE x

AllAbsent(vs) == \A i \in 1..Len(vs) : vs[i].grad = None

DataBounded(vs) == \A i \in 1..Len(vs) : Abs(vs[i].data) <= MaxData

CallRecord(name, args, ret) == [op |-> name, args |-> args, ret |-> ret, size |-> Len(vars)]

NoCall == [op |-> "new", args |-> << >>, ret |-> -1, size |-> 0]

\* Graph::backward's position: the root, topo, the index i of the reverse loop,
\* the nodes backward_single has run on so far, each with the gradient it
\* held at that moment, and the store as it was when backward was called.
NoPass ==
    [pc |-> "idle", root |-> -1, topo |-> << >>, i |-> 0, done |-> << >>, start |-> << >>]

\* The training loop's position: its statement, the parameter handles, the
\* epoch, the number of nodes the current forward pass has created, the index
\* of the parameter the update loop is at, and the loss handle.
NoLoop == [pc |-> "off", params |-> << >>, epoch |-> 0, fwd |-> 0, k |-> 0, loss |-> -1]

\* Graph::new
Init ==
    /\ vars = << >>
    /\ last = NoCall
    /\ prev = NoCall
    /\ checkpoint = 0
    /\ panicked = FALSE
    /\ calls = 0
    /\ ctx = << >>
    /\ pass = NoPass
    /\ loop = NoLoop

\* The program is running and the run has calls left.
Ready == ~panicked /\ calls < MaxCalls

\* A call that ended with r: the store, the panic flag and the record of the
\* call (its name, its arguments and the index it returned).
Returned(name, args, r) ==
    /\ vars' = r.vars
    /\ panicked' = ~r.ok
    /\ last' = CallRecord(name, args, r.idx)
    /\ prev' = last
    /\ calls' = calls + 1
    /\ UNCHANGED <<checkpoint, ctx, pass, loop>>

Call(name, args, r) ==
    /\ Ready
    /\ Len(r.vars) <= MaxNodes
    /\ DataBounded(r.vars)
    /\ Returned(name, args, r)

Variable == \E d \in Vals : Call("variable", <<d>>, variable(vars, d))

ZeroGrad == Call("zero_grad", << >>, zero_grad(vars))

\* let checkpoint = g.len();
LenCall ==
    /\ Ready
    /\ checkpoint' = len(vars)
    /\ last' = CallRecord("len", << >>, len(vars))
    /\ prev' = last
    /\ calls' = calls + 1
    /\ UNCHANGED <<vars, panicked, ctx, pass, loop>>

Truncate == \E n \in Lens : Call("truncate", <<n>>, truncate(vars, n))

SetData ==
    \E idx \in Handles, d \in Vals : Call("set_data", <<idx, d>>, set_data(vars, idx, d))

ZeroGradSingle ==
    \E idx \in Handles : Call("zero_grad_single", <<idx>>, zero_grad_single(vars, idx))

AddOp == \E a, b \in Handles : Call("add", <<a, b>>, add_op(vars, a, b))

MulOp == \E a, b \in Handles : Call("mul", <<a, b>>, mul_op(vars, a, b))

PowOp ==
    \E a \in Handles, exp \in Exps :
        /\ Ready
        /\ forwardExact(OpPow(exp), <<data(vars, a)>>)
        /\ Call("pow", <<a, exp>>, pow_op(vars, a, exp))

ReluOp == \E a \in Handles : Call("relu", <<a>>, relu_op(vars, a))

ExpOp ==
    \E a \in Handles :
        /\ Ready
        /\ forwardExact(OpExp, <<data(vars, a)>>)
        /\ Call("exp", <<a>>, exp_op(vars, a))

LogOp ==
    \E a \in Handles :
        /\ Ready
        /\ forwardExact(OpLog, <<data(vars, a)>>)
        /\ Call("log", <<a>>, log_op(vars, a))

NegOp == \E a \in Handles : Call("neg", <<a>>, neg_op(vars, a))

SubOp == \E a, b \in Handles : Call("sub", <<a, b>>, sub_op(vars, a, b))

DivOp ==
    \E a, b \in Handles :
        /\ Ready
        /\ forwardExact(OpPow(-1), <<data(vars, b)>>)
        /\ Call("div", <<a, b>>, div_op(vars, a, b))

Backward ==
    \E idx \in Handles :
        /\ Ready
        /\ ExactBackward(vars, idx)
        /\ Call("backward", <<idx>>, backward(vars, idx))

Next ==
    \/ Variable
    \/ ZeroGrad
    \/ LenCall
    \/ Truncate
    \/ SetData
    \/ ZeroGradSingle
    \/ AddOp
    \/ MulOp
    \/ PowOp
    \/ ReluOp
    \/ ExpOp
    \/ LogOp
    \/ NegOp
    \/ SubOp
    \/ DivOp
    \/ Backward

Spec == Init /\ [][Next]_allVars

(***************************************************************************)
(* Graphs of Add and Multiply nodes over integer leaves, and one backward  *)
(* pass over each: the store is built by variable(), `+` and `*` up to     *)
(* MaxNodesAM nodes, from the empty store or from the graph                *)
(* d = (a + b) * c of test_chain, and run_backward is then called once.    *)
(***************************************************************************)
MaxNodesAM == 4

ValsAM == {-2, 3}

\* test_chain: d = (a + b) * c
ChainGraphs ==
    { LET g3 == variable(variable(variable(<< >>, a).vars, b).vars, c).vars
          ab == add_op(g3, 0, 1)
      IN mul_op(ab.vars, ab.idx, 2).vars : a \in ValsAM, b \in ValsAM, c \in ValsAM }

InitAM ==
    /\ vars \in {<< >>} \cup ChainGraphs
    /\ last = NoCall
    /\ prev = NoCall
    /\ checkpoint = 0
    /\ panicked = FALSE
    /\ calls = 0
    /\ ctx = << >>
    /\ pass = NoPass
    /\ loop = NoLoop

\* A constructor call while the graph is being built.
BuildAM(name, args, r) ==
    /\ last.op # "backward"
    /\ Len(r.vars) <= MaxNodesAM
    /\ DataBounded(r.vars)
    /\ Returned(name, args, r)

VariableAM == \E d \in ValsAM : BuildAM("variable", <<d>>, variable(vars, d))

AddAM == \E a, b \in Handles : BuildAM("add", <<a, b>>, add_op(vars, a, b))

MulAM == \E a, b \in Handles : BuildAM("mul", <<a, b>>, mul_op(vars, a, b))

BackwardAM ==
    \E idx \in Handles :
        /\ last.op # "backward"
        /\ Returned("backward", <<idx>>, backward(vars, idx))

NextAM ==
    \/ VariableAM
    \/ AddAM
    \/ MulAM
    \/ BackwardAM

SpecAM == InitAM /\ [][NextAM]_allVars

(***************************************************************************)
(* The arena's sizes and indices: create_leaf, the primitive operation     *)
(* constructors, size() and truncate(), in runs of up to MaxCallsIdx       *)
(* calls (record a checkpoint, shrink below it, truncate to it, create).   *)
(***************************************************************************)
MaxCallsIdx == 5

MaxNodesIdx == 4

ValsIdx == {0, 1}

CallIdx(name, args, r) ==
    /\ ~panicked
    /\ calls < MaxCallsIdx
    /\ Len(r.vars) <= MaxNodesIdx
    /\ DataBounded(r.vars)
    /\ Returned(name, args, r)

VariableIdx == \E d \in ValsIdx : CallIdx("variable", <<d>>, variable(vars, d))

\* let checkpoint = g.len();
LenIdx ==
    /\ ~panicked
    /\ calls < MaxCallsIdx
    /\ checkpoint' = len(vars)
    /\ last' = CallRecord("len", << >>, len(vars))
    /\ prev' = last
    /\ calls' = calls + 1
    /\ UNCHANGED <<vars, panicked, ctx, pass, loop>>

TruncateIdx == \E n \in Lens : CallIdx("truncate", <<n>>, truncate(vars, n))

AddIdx == \E a, b \in Handles : CallIdx("add", <<a, b>>, add_op(vars, a, b))

MulIdx == \E a, b \in Handles : CallIdx("mul", <<a, b>>, mul_op(vars, a, b))

PowIdx ==
    \E a \in Handles, exp \in Exps :
        /\ forwardExact(OpPow(exp), <<data(vars, a)>>)
        /\ CallIdx("pow", <<a, exp>>, pow_op(vars, a, exp))

ReluIdx == \E a \in Handles : CallIdx("relu", <<a>>, relu_op(vars, a))

ExpIdx ==
    \E a \in Handles :
        /\ forwardExact(OpExp, <<data(vars, a)>>)
        /\ CallIdx("exp", <<a>>, exp_op(vars, a))

LogIdx ==
    \E a \in Handles :
        /\ forwardExact(OpLog, <<data(vars, a)>>)
        /\ CallIdx("log", <<a>>, log_op(vars, a))

NextIdx ==
    \/ VariableIdx
    \/ LenIdx
    \/ TruncateIdx
    \/ AddIdx
    \/ MulIdx
    \/ PowIdx
    \/ ReluIdx
    \/ ExpIdx
    \/ LogIdx

SpecIdx == Init /\ [][NextIdx]_allVars

(***************************************************************************)
(* Calls on any handle a caller can hold: handles of nodes in the store    *)
(* and handles a truncate has left behind (a Variable keeps its idx; its   *)
(* fields are private, so every handle was once an index of the store).    *)
(* A call that panics ends the run.                                        *)
(***************************************************************************)
MaxCallsSt == 3

ValsSt == {0, 1}

\* The largest size the store has had over the recorded calls.
HighWater ==
    LET sizes == {Len(vars), last.size, prev.size}
    IN  CHOOSE m \in sizes : \A n \in sizes : n <= m

\* Any VariableDataIdx a caller may hold, valid or stale.
AnyHandles == 0..(HighWater - 1)

\* Graph::data / Graph::grad as calls: vars[idx] panics out of range.
data_call(vs, idx) == IF ~InRange(vs, idx) THEN Panic(vs) ELSE Ret(vs, -1)

grad_call(vs, idx) == IF ~InRange(vs, idx) THEN Panic(vs) ELSE Ret(vs, -1)

CallSt(name, args, r) ==
    /\ ~panicked
    /\ calls < MaxCallsSt
    /\ Len(r.vars) <= MaxNodes
    /\ DataBounded(r.vars)
    /\ Returned(name, args, r)

VariableSt == \E d \in ValsSt : CallSt("variable", <<d>>, variable(vars, d))

TruncateSt == \E n \in Lens : CallSt("truncate", <<n>>, truncate(vars, n))

DataSt == \E idx \in AnyHandles : CallSt("data", <<idx>>, data_call(vars, idx))

GradSt == \E idx \in AnyHandles : CallSt("grad", <<idx>>, grad_call(vars, idx))

SetDataSt ==
    \E idx \in AnyHandles, d \in ValsSt :
        CallSt("set_data", <<idx, d>>, set_data(vars, idx, d))

ZeroGradSingleSt ==
    \E idx \in AnyHandles : CallSt("zero_grad_single", <<idx>>, zero_grad_single(vars, idx))

AddSt == \E a, b \in AnyHandles : CallSt("add", <<a, b>>, add_op(vars, a, b))

MulSt == \E a, b \in AnyHandles : CallSt("mul", <<a, b>>, mul_op(vars, a, b))

PowSt ==
    \E a \in AnyHandles, exp \in Exps :
        /\ InRange(vars, a) => forwardExact(OpPow(exp), <<data(vars, a)>>)
        /\ CallSt("pow", <<a, exp>>, pow_op(vars, a, exp))

ReluSt == \E a \in AnyHandles : CallSt("relu", <<a>>, relu_op(vars, a))

ExpSt ==
    \E a \in AnyHandles :
        /\ InRange(vars, a) => forwardExact(OpExp, <<data(vars, a)>>)
        /\ CallSt("exp", <<a>>, exp_op(vars, a))

LogSt ==
    \E a \in AnyHandles :
        /\ InRange(vars, a) => forwardExact(OpLog, <<data(vars, a)>>)
        /\ CallSt("log", <<a>>, log_op(vars, a))

NegSt == \E a \in AnyHandles : CallSt("neg", <<a>>, neg_op(vars, a))

SubSt == \E a, b \in AnyHandles : CallSt("sub", <<a, b>>, sub_op(vars, a, b))

DivSt ==
    \E a, b \in AnyHandles :
        /\ InRange(vars, b) => forwardExact(OpPow(-1), <<data(vars, b)>>)
        /\ CallSt("div", <<a, b>>, div_op(vars, a, b))

BackwardSt ==
    \E idx \in AnyHandles :
        /\ ExactBackward(vars, idx)
        /\ CallSt("backward", <<idx>>, backward(vars, idx))

NextSt ==
    \/ VariableSt
    \/ TruncateSt
    \/ DataSt
    \/ GradSt
    \/ SetDataSt
    \/ ZeroGradSingleSt
    \/ AddSt
    \/ MulSt
    \/ PowSt
    \/ ReluSt
    \/ ExpSt
    \/ LogSt
    \/ NegSt
    \/ SubSt
    \/ DivSt
    \/ BackwardSt

SpecSt == Init /\ [][NextSt]_allVars

(***************************************************************************)
(* Graph::backward statement by statement: build_topo and the seed, then   *)
(* one backward_single per iteration of the reverse loop, then the return. *)
(* Graphs are built by variable(), `+`, `*` and relu() up to                *)
(* MaxNodesBw nodes, and up to MaxPasses passes are then run on them.      *)
(***************************************************************************)
MaxNodesBw == 4

MaxPasses == 2

ValsBw == {-2, 1}

\* A constructor call while the graph is being built, before the first pass;
\* `calls` counts the backward calls.
BuildBw(name, args, r) ==
    /\ pass.pc = "idle"
    /\ calls = 0
    /\ Len(r.vars) <= MaxNodesBw
    /\ DataBounded(r.vars)
    /\ vars' = r.vars
    /\ panicked' = ~r.ok
    /\ last' = CallRecord(name, args, r.idx)
    /\ prev' = last
    /\ UNCHANGED <<checkpoint, calls, ctx, pass, loop>>

VariableBw == \E d \in ValsBw : BuildBw("variable", <<d>>, variable(vars, d))

AddBw == \E a, b \in Handles : BuildBw("add", <<a, b>>, add_op(vars, a, b))

MulBw == \E a, b \in Handles : BuildBw("mul", <<a, b>>, mul_op(vars, a, b))

ReluBw == \E a \in Handles : BuildBw("relu", <<a>>, relu_op(vars, a))

\* build_topo(idx, ...); self.vars.borrow_mut()[idx].grad = Some(1.0);
BackwardEnter ==
    \E idx \in Handles :
        /\ pass.pc = "idle"
        /\ calls < MaxPasses
        /\ ExactBackward(vars, idx)
        /\ vars' = seed(vars, idx)
        /\ pass' = [pc |-> "loop", root |-> idx, topo |-> topo_of(vars, idx),
                    i |-> Len(topo_of(vars, idx)), done |-> << >>, start |-> vars]
        /\ calls' = calls + 1
        /\ UNCHANGED <<last, prev, checkpoint, panicked, ctx, loop>>

\* for v in topo.iter().rev() { self.backward_single(*v); }
BackwardLoop ==
    /\ pass.pc = "loop"
    /\ pass.i >= 1
    /\ vars' = backward_single(vars, pass.topo[pass.i])
    /\ pass' = [pass EXCEPT !.i = @ - 1,
                            !.done = Append(@, [node |-> pass.topo[pass.i],
                                                grad |-> At(vars, pass.topo[pass.i]).grad])]
    /\ UNCHANGED <<last, prev, checkpoint, panicked, calls, ctx, loop>>

BackwardReturn ==
    /\ pass.pc = "loop"
    /\ pass.i = 0
    /\ pass' = [pass EXCEPT !.pc = "idle"]
    /\ last' = CallRecord("backward", <<pass.root>>, -1)
    /\ prev' = last
    /\ UNCHANGED <<vars, checkpoint, panicked, calls, ctx, loop>>

NextBw ==
    \/ VariableBw
    \/ AddBw
    \/ MulBw
    \/ ReluBw
    \/ BackwardEnter
    \/ BackwardLoop
    \/ BackwardReturn

SpecBw == Init /\ [][NextBw]_allVars

(***************************************************************************)
(* The training loop of examples/xor.rs (examples/mnist.rs has the same    *)
(* shape): parameter leaves, checkpoint = g.len(), and per epoch a forward *)
(* pass, backward on the loss, set_data on every parameter, zero_grad and  *)
(* truncate(checkpoint).  A forward pass is any sequence of 1..MaxForward  *)
(* constructor calls on the handles of the store; the updated value        *)
(* p.data() - lr * grad is any value of ValsLp.                            *)
(***************************************************************************)
MaxParams == 2

MaxForward == 2

MaxEpochs == 3

ValsLp == {0, 1}

InitLp ==
    /\ vars = << >>
    /\ last = NoCall
    /\ prev = NoCall
    /\ checkpoint = 0
    /\ panicked = FALSE
    /\ calls = 0
    /\ ctx = << >>
    /\ pass = NoPass
    /\ loop = [NoLoop EXCEPT !.pc = "params"]

\* A call of the loop that returned r.
CallLp(name, args, r) ==
    /\ DataBounded(r.vars)
    /\ vars' = r.vars
    /\ panicked' = ~r.ok
    /\ last' = CallRecord(name, args, r.idx)
    /\ prev' = last
    /\ UNCHANGED <<calls, ctx, pass>>

\* let mlp = g.mlp(...): Neuron::new creates each weight and bias as a leaf.
CreateParam ==
    \E d \in ValsLp :
        /\ loop.pc = "params"
        /\ Len(loop.params) < MaxParams
        /\ CallLp("variable", <<d>>, variable(vars, d))
        /\ loop' = [loop EXCEPT !.params = Append(@, Len(vars))]
        /\ UNCHANGED checkpoint

\* let params = mlp.parameters(); let checkpoint = g.len();
Checkpoint ==
    /\ loop.pc = "params"
    /\ Len(loop.params) >= 1
    /\ checkpoint' = len(vars)
    /\ last' = CallRecord("len", << >>, len(vars))
    /\ prev' = last
    /\ loop' = [loop EXCEPT !.pc = "forward"]
    /\ UNCHANGED <<vars, panicked, calls, ctx, pass>>

\* One constructor call of the forward pass; the loss is the node made last.
Forward(name, args, r) ==
    /\ loop.pc = "forward"
    /\ loop.fwd < MaxForward
    /\ CallLp(name, args, r)
    /\ loop' = [loop EXCEPT !.fwd = @ + 1, !.loss = r.idx]
    /\ UNCHANGED checkpoint

ForwardVariable == \E d \in ValsLp : Forward("variable", <<d>>, variable(vars, d))

ForwardAdd == \E a, b \in Handles : Forward("add", <<a, b>>, add_op(vars, a, b))

ForwardMul == \E a, b \in Handles : Forward("mul", <<a, b>>, mul_op(vars, a, b))

ForwardRelu == \E a \in Handles : Forward("relu", <<a>>, relu_op(vars, a))

\* total_loss.backward();
LossBackward ==
    /\ loop.pc = "forward"
    /\ loop.fwd >= 1
    /\ ExactBackward(vars, loop.loss)
    /\ CallLp("backward", <<loop.loss>>, backward(vars, loop.loss))
    /\ loop' = [loop EXCEPT !.pc = "update", !.k = 1]
    /\ UNCHANGED checkpoint

\* for &p in &params { p.set_data(p.data() - lr * grad) }
Update ==
    \E d \in ValsLp :
        /\ loop.pc = "update"
        /\ loop.k <= Len(loop.params)
        /\ CallLp("set_data", <<loop.params[loop.k], d>>,
                  set_data(vars, loop.params[loop.k], d))
        /\ loop' = [loop EXCEPT !.k = @ + 1]
        /\ UNCHANGED checkpoint

\* g.zero_grad();
LoopZeroGrad ==
    /\ loop.pc = "update"
    /\ loop.k > Len(loop.params)
    /\ CallLp("zero_grad", << >>, zero_grad(vars))
    /\ loop' = [loop EXCEPT !.pc = "truncate"]
    /\ UNCHANGED checkpoint

\* g.truncate(checkpoint); and the next epoch, if any
LoopTruncate ==
    /\ loop.pc = "truncate"
    /\ CallLp("truncate", <<checkpoint>>, truncate(vars, checkpoint))
    /\ loop' = [loop EXCEPT !.pc = IF loop.epoch + 1 < MaxEpochs THEN "forward" ELSE "done",
                            !.epoch = @ + 1, !.fwd = 0, !.loss = -1]
    /\ UNCHANGED checkpoint

NextLp ==
    \/ CreateParam
    \/ Checkpoint
    \/ ForwardVariable
    \/ ForwardAdd
    \/ ForwardMul
    \/ ForwardRelu
    \/ LossBackward
    \/ Update
    \/ LoopZeroGrad
    \/ LoopTruncate

SpecLp == InitLp /\ [][NextLp]_allVars

(***************************************************************************)
(* The Context of main.rs and the Graph of graph.rs side by side: every    *)
(* call is made on both with the same arguments (a VariableIdx of the one  *)
(* is the idx of the other's Variable).                                    *)
(***************************************************************************)
MaxCallsEq == 4

\* The same call returned r on the Graph and rc on the Context.
CallEq(name, args, r, rc) ==
    /\ ~panicked
    /\ calls < MaxCallsEq
    /\ Len(r.vars) <= MaxNodes
    /\ DataBounded(r.vars)
    /\ vars' = r.vars
    /\ ctx' = rc.vars
    /\ panicked' = (~r.ok \/ ~rc.ok)
    /\ last' = CallRecord(name, args, r.idx)
    /\ prev' = last
    /\ calls' = calls + 1
    /\ UNCHANGED <<checkpoint, pass, loop>>

VarEq == \E d \in Vals : CallEq("variable", <<d>>, variable(vars, d), Context_var(ctx, d))

AddEq ==
    \E a, b \in Handles : CallEq("add", <<a, b>>, add_op(vars, a, b), Context_add(ctx, a, b))

MulEq ==
    \E a, b \in Handles : CallEq("mul", <<a, b>>, mul_op(vars, a, b), Context_mul(ctx, a, b))

PowEq ==
    \E a \in Handles, exp \in Exps :
        /\ forwardExact(OpPow(exp), <<data(vars, a)>>)
        /\ CallEq("pow", <<a, exp>>, pow_op(vars, a, exp), Context_pow(ctx, a, exp))

ReluEq == \E a \in Handles : CallEq("relu", <<a>>, relu_op(vars, a), Context_relu(ctx, a))

NegEq == \E a \in Handles : CallEq("neg", <<a>>, neg_op(vars, a), Context_neg(ctx, a))

SubEq ==
    \E a, b \in Handles : CallEq("sub", <<a, b>>, sub_op(vars, a, b), Context_sub(ctx, a, b))

DivEq ==
    \E a, b \in Handles :
        /\ forwardExact(OpPow(-1), <<data(vars, b)>>)
        /\ CallEq("div", <<a, b>>, div_op(vars, a, b), Context_div(ctx, a, b))

BackpropEq ==
    \E idx \in Handles :
        /\ ~panicked
        /\ calls < MaxCallsEq
        /\ ExactBackward(vars, idx)
        /\ CallEq("backward", <<idx>>, backward(vars, idx), Context_backprop(ctx, idx))

NextEq ==
    \/ VarEq
    \/ AddEq
    \/ MulEq
    \/ PowEq
    \/ ReluEq
    \/ NegEq
    \/ SubEq
    \/ DivEq
    \/ BackpropEq

SpecEq == Init /\ [][NextEq]_allVars

(***************************************************************************)
(* Properties.                                                             *)
(***************************************************************************)
\* The calls that append exactly one node: create_leaf and the primitive
\* operation constructors.
Primitive == {"variable", "add", "mul", "pow", "relu", "exp", "log"}

IsOpNode(n) == n.op.tag # "Value"

\* The latest call was a truncate that discarded at least one node.
Discarded(c) == c.op = "truncate" /\ c.args[1] < c.size

\* C1: every operand index stored in a node is strictly less than the node's
\* own index (node i of the code is vars[i + 1]), in every reachable state.
C1_Acyclic ==
    \A i \in 1..Len(vars) :
        \A k \in 1..Len(vars[i].children) :
            /\ vars[i].children[k] >= 0
            /\ vars[i].children[k] < i - 1
            /\ vars[i].children[k] < Len(vars)

\* A node with operands was appended right after a truncate discarded nodes,
\* at an index the truncate had freed.
C1_Witness ==
    /\ Discarded(prev)
    /\ last.op \in {"add", "mul", "sub"}
    /\ last.ret < prev.size
    /\ IsOpNode(At(vars, last.ret))

\* C3: right after a primitive operation constructor returns, the new node
\* holds a + b (Add), a * b (Multiply), a^k (Power, k >= 0), and a if a > 0
\* else 0 (ReLU) of its operands' values.
RECURSIVE IntPower(_, _)
IntPower(a, k) ==
    IF k = 0 THEN 1
    ELSE IF k > 0 THEN a * IntPower(a, k - 1)
    ELSE IntPower(a, -k)

C3_ForwardAtCreation ==
    LET new == At(vars, last.ret)
        a == At(vars, last.args[1]).data
        b == At(vars, last.args[2]).data
    IN /\ last.op = "add" => new.data = a + b /\ new.op = OpAdd
       /\ last.op = "mul" => new.data = a * b /\ new.op = OpMul
       /\ last.op = "pow" => new.data = IntPower(a, last.args[2])
                             /\ new.op = OpPow(last.args[2])
       /\ last.op = "relu" => new.data = (IF a > 0 THEN a ELSE 0) /\ new.op = OpReLU

\* ReLU was just built on an operand of value 0.
C3_Witness ==
    /\ last.op = "relu"
    /\ At(vars, last.args[1]).data = 0
    /\ At(vars, last.ret).data = 0

\* C2: after run_backward(root) on a store of Add and Multiply nodes over
\* integer leaves whose gradients were all absent, the gradient of every node
\* reachable from root is the sum, over the operand-edge paths from root to
\* the node, of the product of the local derivatives along the path (1 for an
\* operand of Add, the other operand's value for an operand of Multiply).
LocalDerivative(vs, p, k) ==
    IF At(vs, p).op.tag = "Add" THEN 1
    ELSE At(vs, At(vs, p).children[3 - k]).data

RECURSIVE PathSum(_, _, _)
RECURSIVE PathSumFrom(_, _, _, _)
PathSum(vs, cur, target) ==
    IF cur = target THEN 1 ELSE PathSumFrom(vs, cur, target, 1)

PathSumFrom(vs, cur, target, k) ==
    IF k > Len(At(vs, cur).children) THEN 0
    ELSE LocalDerivative(vs, cur, k) * PathSum(vs, At(vs, cur).children[k], target)
         + PathSumFrom(vs, cur, target, k + 1)

RECURSIVE Reaches(_, _, _)
Reaches(vs, from, to) ==
    \/ from = to
    \/ \E k \in 1..Len(At(vs, from).children) : Reaches(vs, At(vs, from).children[k], to)

IsReuse(vs) ==
    /\ Len(vs) = 3
    /\ At(vs, 1).op = OpMul /\ At(vs, 1).children = <<0, 0>>
    /\ At(vs, 2).op = OpAdd /\ At(vs, 2).children = <<1, 0>>

IsChain(vs) ==
    /\ Len(vs) = 5
    /\ \A i \in 0..2 : At(vs, i).op = OpValue
    /\ At(vs, 3).op = OpAdd /\ At(vs, 3).children = <<0, 1>>
    /\ At(vs, 4).op = OpMul /\ At(vs, 4).children = <<3, 2>>

C2_Post(vs, root) ==
    /\ \A n \in 0..(Len(vs) - 1) :
           Reaches(vs, root, n) => At(vs, n).grad = Some(PathSum(vs, root, n))
    \* f(a) = a * a + a gives grad(a) = 2a + 1
    /\ (IsReuse(vs) /\ root = 2) => At(vs, 0).grad = Some(2 * At(vs, 0).data + 1)
    \* d = (a + b) * c gives grad(a) = grad(b) = c and grad(c) = a + b
    /\ (IsChain(vs) /\ root = 4) =>
           /\ At(vs, 0).grad = Some(At(vs, 2).data)
           /\ At(vs, 1).grad = Some(At(vs, 2).data)
           /\ At(vs, 2).grad = Some(At(vs, 0).data + At(vs, 1).data)

C2_PathSum ==
    [][(AllAbsent(vars) /\ last'.op = "backward") => C2_Post(vars', last'.args[1])]_allVars

\* run_backward has run on f(a) = a * a + a at a = 3: grad(a) = 7, the sum
\* over the three paths from f to a.
C2_Witness ==
    /\ last.op = "backward"
    /\ last.args[1] = 2
    /\ IsReuse(vars)
    /\ At(vars, 0).data = 3
    /\ At(vars, 0).grad = Some(7)

\* Only constructor calls have been made before the latest call, so every
\* gradient was absent when it was made.
FreshBefore == calls = Len(vars) + 1

\* The root of the latest backward pass is one primitive operation over leaves.
OverLeaves(vs, root) ==
    /\ IsOpNode(At(vs, root))
    /\ \A k \in 1..Len(At(vs, root).children) :
           ~IsOpNode(At(vs, At(vs, root).children[k]))

\* C4 as stated: after run_backward(root) from absent gradients on a root
\* that is one primitive operation over leaves, Add gives each operand
\* gradient 1, Multiply(a, b) gives grad(a) = value(b) and grad(b) = value(a),
\* Power(a, k) gives k * a^(k-1), ReLU(a) gives 1 if the stored output is > 0
\* and 0 otherwise.
C4_AsStated(vs, root) ==
    LET n == At(vs, root)
        a == n.children[1]
        b == n.children[2]
    IN /\ n.op.tag = "Add" => At(vs, a).grad = Some(1) /\ At(vs, b).grad = Some(1)
       /\ n.op.tag = "Mul" =>
              /\ At(vs, a).grad = Some(At(vs, b).data)
              /\ At(vs, b).grad = Some(At(vs, a).data)
       /\ n.op.tag = "Pow" =>
              At(vs, a).grad = Some(IF n.op.exp = 0 THEN 0
                                    ELSE n.op.exp * IntPower(At(vs, a).data, n.op.exp - 1))
       /\ n.op.tag = "ReLU" => At(vs, a).grad = Some(IF n.data > 0 THEN 1 ELSE 0)

C4_Original ==
    [][(AllAbsent(vars) /\ last'.op = "backward" /\ OverLeaves(vars', last'.args[1])
        /\ At(vars', last'.args[1]).op.tag \in {"Add", "Mul", "Pow", "ReLU"})
       => C4_AsStated(vars', last'.args[1])]_allVars

\* C4 (amended): the same, where Add and Multiply are on two different
\* leaves; a leaf that is both operands receives the sum of both
\* contributions, 2 for Add(a, a) and 2 * value(a) for Multiply(a, a).
C4_Amended(vs, root) ==
    LET n == At(vs, root)
        a == n.children[1]
        b == n.children[2]
    IN /\ (n.op.tag \in {"Add", "Mul"} /\ a # b) => C4_AsStated(vs, root)
       /\ (n.op.tag = "Add" /\ a = b) => At(vs, a).grad = Some(2)
       /\ (n.op.tag = "Mul" /\ a = b) => At(vs, a).grad = Some(2 * At(vs, a).data)
       /\ n.op.tag \in {"Pow", "ReLU"} => C4_AsStated(vs, root)
       /\ n.grad = Some(1)

C4_LocalGradients ==
    [][(AllAbsent(vars) /\ last'.op = "backward" /\ OverLeaves(vars', last'.args[1])
        /\ At(vars', last'.args[1]).op.tag \in {"Add", "Mul", "Pow", "ReLU"})
       => C4_Amended(vars', last'.args[1])]_allVars

\* run_backward has run from absent gradients on Multiply(a, b) over two
\* leaves of different values.
C4_Witness ==
    /\ last.op = "backward"
    /\ FreshBefore
    /\ Len(vars) = 3
    /\ At(vars, 2).op = OpMul /\ At(vars, 2).children = <<0, 1>>
    /\ last.args[1] = 2
    /\ At(vars, 0).data # At(vars, 1).data
    /\ At(vars, 0).grad = Some(At(vars, 1).data)
    /\ At(vars, 1).grad = Some(At(vars, 0).data)

\* The gradients of a store, node by node.
Grads(vs) == [i \in 1..Len(vs) |-> vs[i].grad]

\* reset_all_gradients() and then run_backward(root) again.
Rerun(vs, root) == backward(zero_grad(vs).vars, root).vars

\* C5 as stated: in any state right after run_backward(root), recording the
\* gradients, calling reset_all_gradients() and run_backward(root) again gives
\* every node the recorded gradient.
C5_Original ==
    last.op = "backward" => Grads(Rerun(vars, last.args[1])) = Grads(vars)

\* C5 (amended): the same, when every gradient was absent before the first
\* of the two passes.
C5_Rerun ==
    [][(AllAbsent(vars) /\ last'.op = "backward")
       => Grads(Rerun(vars', last'.args[1])) = Grads(vars')]_allVars

\* A first pass from absent gradients has run on a root with operands, and
\* the second pass reproduces its gradients.
C5_Witness ==
    /\ last.op = "backward"
    /\ FreshBefore
    /\ IsOpNode(At(vars, last.args[1]))
    /\ \E i \in Handles : i # last.args[1] /\ At(vars, i).grad # None
    /\ Grads(Rerun(vars, last.args[1])) = Grads(vars)

\* C6: after reset_all_gradients() every node's gradient is absent;
\* reset_gradient(h) makes node h's gradient absent and leaves every other
\* node's gradient (and the rest of the store) as it was.
C6_Resets ==
    [][/\ last'.op = "zero_grad" =>
              /\ AllAbsent(vars')
              /\ Len(vars') = Len(vars)
       /\ last'.op = "zero_grad_single" =>
              /\ At(vars', last'.args[1]).grad = None
              /\ Len(vars') = Len(vars)
              /\ \A i \in Handles : i # last'.args[1] => At(vars', i) = At(vars, i)
      ]_allVars

\* reset_gradient(h) has run right after a backward pass and another node
\* still holds its gradient.
C6_Witness ==
    /\ last.op = "zero_grad_single"
    /\ prev.op = "backward"
    /\ At(vars, last.args[1]).grad = None
    /\ \E i \in Handles : i # last.args[1] /\ At(vars, i).grad # None

\* C7 as stated: after truncate(checkpoint), for a checkpoint an earlier
\* size() returned, size() equals checkpoint.
C7_Original ==
    (last.op = "truncate" /\ last.args[1] = checkpoint) => len(vars) = checkpoint

\* C7 (amended): after truncate(checkpoint), size() equals checkpoint if
\* size() was at least checkpoint when truncate was called, and is unchanged
\* (below checkpoint) otherwise.
C7_TruncateSize ==
    (last.op = "truncate" /\ last.args[1] = checkpoint) =>
        len(vars) = (IF last.size >= checkpoint THEN checkpoint ELSE last.size)

\* truncate(checkpoint) has discarded the nodes created since the checkpoint
\* was recorded.
C7_Witness ==
    /\ last.op = "truncate"
    /\ last.args[1] = checkpoint
    /\ checkpoint > 0
    /\ last.size > checkpoint
    /\ len(vars) = checkpoint

\* C8: truncate(len) leaves the value, gradient, operand list and operation
\* tag of every node with index < len unchanged.
C8_TruncateFrame ==
    [][last'.op = "truncate" =>
           \A i \in Handles :
               i < last'.args[1] => (InRange(vars', i) /\ At(vars', i) = At(vars, i))
      ]_allVars

\* truncate has discarded a node and retained one whose gradient is present.
C8_Witness ==
    /\ Discarded(last)
    /\ \E i \in Handles : At(vars, i).grad # None /\ IsOpNode(At(vars, i))

\* C9 as stated: create_leaf and every primitive operation constructor return
\* the index size() had before the call and increase size() by exactly 1, and
\* the first node created after truncate(checkpoint) has index checkpoint.
C9_Original ==
    [][last'.op \in Primitive =>
           /\ last'.ret = Len(vars)
           /\ Len(vars') = Len(vars) + 1
           /\ (last.op = "truncate" /\ last.args[1] = checkpoint) =>
                  last'.ret = checkpoint
      ]_allVars

\* C9 (amended): the same, where the first node created after
\* truncate(checkpoint) has index checkpoint if size() was at least
\* checkpoint when truncate was called, and index size() (unchanged by the
\* truncate) otherwise.
C9_Indices ==
    [][last'.op \in Primitive =>
           /\ last'.ret = Len(vars)
           /\ Len(vars') = Len(vars) + 1
           /\ (last.op = "truncate" /\ last.args[1] = checkpoint) =>
                  last'.ret = (IF last.size >= checkpoint THEN checkpoint ELSE last.size)
      ]_allVars

\* A leaf was created right after truncate(checkpoint) discarded nodes, at
\* index checkpoint.
C9_Witness ==
    /\ Discarded(prev)
    /\ prev.args[1] = checkpoint
    /\ last.op \in Primitive
    /\ last.ret = checkpoint
    /\ Len(vars) = checkpoint + 1

\* C10: after run_backward(root) from absent gradients, a node's gradient is
\* present exactly when the node is root or reachable from root along
\* operand edges; the operand of a ReLU whose output is 0 reads present 0.
C10_Post(vs, root) ==
    /\ \A n \in 0..(Len(vs) - 1) : (At(vs, n).grad # None) <=> Reaches(vs, root, n)
    /\ \A n \in 0..(Len(vs) - 1) :
           (Reaches(vs, root, n) /\ At(vs, n).op = OpReLU /\ At(vs, n).data = 0) =>
               At(vs, At(vs, n).children[1]).grad # None

C10_PresentIffReachable ==
    [][(AllAbsent(vars) /\ last'.op = "backward") => C10_Post(vars', last'.args[1])]_allVars

\* run_backward has run from absent gradients on a ReLU of output 0: its
\* operand reads present 0, and a node that is not reachable reads absent.
C10_Witness ==
    /\ last.op = "backward"
    /\ FreshBefore
    /\ At(vars, last.args[1]).op = OpReLU
    /\ At(vars, last.args[1]).data = 0
    /\ At(vars, At(vars, last.args[1]).children[1]).grad = Some(0)
    /\ \E i \in Handles : ~Reaches(vars, last.args[1], i) /\ At(vars, i).grad = None

\* The indices a call was given as handles.
HandleArgs(c) ==
    CASE c.op \in {"add", "mul", "sub", "div"} -> {c.args[1], c.args[2]}
      [] c.op \in {"data", "grad", "set_data", "zero_grad_single", "backward",
                   "pow", "relu", "exp", "log", "neg"} -> {c.args[1]}
      [] OTHER -> {}

\* The latest call was given a handle whose index was >= size() at the call.
GivenInvalid(c) == \E h \in HandleArgs(c) : h >= c.size

\* C11: a call given a handle whose index is >= the current size() ends in a
\* fatal fault: it does not return.
C11_InvalidHandlePanics ==
    GivenInvalid(last) => panicked

\* The node a constructor call appends: value, operands and operation.
IsNode(n, op, children) == n.op = op /\ n.children = children

IsMinusOne(n) == IsNode(n, OpValue, << >>) /\ n.data = -1

\* What negate, subtract and divide (call c, on store vs after it) appended.
DerivedShape(vs, c) ==
    LET n == c.size
        a == c.args[1]
        b == c.args[2]
    IN /\ c.op = "neg" =>
              /\ Len(vs) = n + 2 /\ c.ret = n + 1
              /\ IsMinusOne(At(vs, n))
              /\ IsNode(At(vs, n + 1), OpMul, <<a, n>>)
       /\ c.op = "sub" =>
              /\ Len(vs) = n + 3 /\ c.ret = n + 2
              /\ IsMinusOne(At(vs, n))
              /\ IsNode(At(vs, n + 1), OpMul, <<b, n>>)
              /\ IsNode(At(vs, n + 2), OpAdd, <<a, n + 1>>)
              /\ At(vs, n + 2).data = At(vs, a).data - At(vs, b).data
       /\ c.op = "div" =>
              /\ Len(vs) = n + 2 /\ c.ret = n + 1
              /\ IsNode(At(vs, n), OpPow(-1), <<b>>)
              /\ IsNode(At(vs, n + 1), OpMul, <<a, n>>)

\* run_backward is called on the node subtract(a, b) has just returned, for
\* leaves a and b.
BackwardOnSub ==
    /\ last.op = "sub"
    /\ ~IsOpNode(At(vars, last.args[1]))
    /\ ~IsOpNode(At(vars, last.args[2]))
    /\ last'.op = "backward"
    /\ last'.args[1] = last.ret

\* C12 as stated: negate appends a leaf -1 and Multiply(a, leaf); subtract
\* appends a leaf -1, Multiply(b, leaf) and Add(a, product); divide appends
\* Power(b, -1) and Multiply(a, power); the handle returned is the last node
\* appended; subtract(a, b) on leaves has value a - b, and grad(a) = 1 and
\* grad(b) = -1 after run_backward on it.
C12_Original ==
    [][/\ DerivedShape(vars', last')
       /\ BackwardOnSub =>
              /\ At(vars', last.args[1]).grad = Some(1)
              /\ At(vars', last.args[2]).grad = Some(-1)
      ]_allVars

\* C12 (amended): the same, with grad(a) = 1 and grad(b) = -1 for two
\* different leaves a and b whose gradients are absent when run_backward is
\* called.
C12_Derived ==
    [][/\ DerivedShape(vars', last')
       /\ (/\ BackwardOnSub
           /\ last.args[1] # last.args[2]
           /\ At(vars, last.args[1]).grad = None
           /\ At(vars, last.args[2]).grad = None) =>
              /\ At(vars', last.args[1]).grad = Some(1)
              /\ At(vars', last.args[2]).grad = Some(-1)
      ]_allVars

\* run_backward has run on subtract(a, b) of two different leaves of
\* different values.
C12_Witness ==
    /\ prev.op = "sub"
    /\ last.op = "backward"
    /\ last.args[1] = prev.ret
    /\ prev.args[1] # prev.args[2]
    /\ ~IsOpNode(At(vars, prev.args[1]))
    /\ ~IsOpNode(At(vars, prev.args[2]))
    /\ At(vars, prev.args[1]).data # At(vars, prev.args[2]).data
    /\ At(vars, prev.ret).data = At(vars, prev.args[1]).data - At(vars, prev.args[2]).data
    /\ At(vars, prev.args[1]).grad = Some(1)
    /\ At(vars, prev.args[2]).grad = Some(-1)

\* C13: after every sequence of leaf creations, Add, Multiply, Power, ReLU,
\* negate, subtract, divide and backward calls made on both, the Context and
\* the Graph hold stores of the same size whose nodes agree, index by index,
\* on value, operand list, operation tag and gradient.
C13_Equivalent ==
    /\ Len(ctx) = Len(vars)
    /\ \A i \in 1..Len(vars) :
           /\ ctx[i].data = vars[i].data
           /\ ctx[i].children = vars[i].children
           /\ ctx[i].op = vars[i].op
           /\ ctx[i].grad = vars[i].grad
    /\ ~panicked

\* Both have run a backward pass over a graph with a Multiply node of two
\* operands of different values, and a second pass on top of it.
C13_Witness ==
    /\ last.op = "backward"
    /\ prev.op = "backward"
    /\ Len(ctx) >= 3
    /\ \E i \in Handles :
           /\ At(ctx, i).op = OpMul
           /\ At(ctx, i).grad # None
           /\ At(ctx, At(ctx, i).children[1]).data # At(ctx, At(ctx, i).children[2]).data
           /\ At(ctx, At(ctx, i).children[1]).grad # None

\* The nodes backward_single has run on in the current (or latest) pass.
DoneNodes == {pass.done[k].node : k \in 1..Len(pass.done)}

\* C14: run_backward(root) processes each node reachable from root exactly
\* once and no unreachable node; it processes a node only after every
\* reachable node that has it as an operand; the node's gradient is present
\* at that moment and receives no contribution afterwards.
C14_ReverseTopological ==
    LET done == pass.done
    IN /\ \A j, k \in 1..Len(done) : done[j].node = done[k].node => j = k
       /\ \A k \in 1..Len(done) : Reaches(vars, pass.root, done[k].node)
       /\ (pass.pc = "loop" /\ pass.i = 0) =>
              \A n \in Handles : Reaches(vars, pass.root, n) => n \in DoneNodes
       /\ \A k \in 1..Len(done) :
              \A p \in Handles :
                  (/\ Reaches(vars, pass.root, p)
                   /\ \E c \in 1..Len(At(vars, p).children) :
                          At(vars, p).children[c] = done[k].node)
                  => \E j \in 1..(k - 1) : done[j].node = p
       /\ \A k \in 1..Len(done) :
              /\ done[k].grad # None
              /\ At(vars, done[k].node).grad = done[k].grad

\* A pass has finished on f = a * a + a: the leaf a, an operand of both other
\* nodes, was processed last, with both contributions already in its gradient,
\* and a node outside the graph was not processed.
C14_Witness ==
    /\ pass.pc = "loop" /\ pass.i = 0
    /\ Len(vars) = 4
    /\ Len(pass.done) = 3
    /\ At(vars, pass.root).op = OpAdd
    /\ \E m \in Handles :
           /\ At(vars, m).op = OpMul
           /\ At(vars, m).children = <<pass.done[3].node, pass.done[3].node>>
           /\ At(vars, pass.root).children = <<m, pass.done[3].node>>
    /\ pass.done[3].grad = Some(2 * At(vars, pass.done[3].node).data + 1)

\* C15: no call changes the operand list or operation tag of a node that
\* exists before and after it; a node's value changes only through
\* write_value on that node (so the nodes that have it as an operand keep the
\* value computed at their creation); a node's gradient changes only through
\* run_backward, reset_all_gradients or reset_gradient.
C15_Frame ==
    [][\A i \in Handles :
           InRange(vars', i) =>
               /\ At(vars', i).children = At(vars, i).children
               /\ At(vars', i).op = At(vars, i).op
               /\ At(vars', i).data # At(vars, i).data =>
                      (last'.op = "set_data" /\ last'.args[1] = i)
               /\ At(vars', i).grad # At(vars, i).grad =>
                      last'.op \in {"backward", "zero_grad", "zero_grad_single"}
      ]_allVars

\* write_value has changed an operand of a node, and the node still holds
\* the value computed at its creation, no longer the sum of its operands.
C15_Witness ==
    /\ last.op = "set_data"
    /\ \E i \in Handles :
           /\ At(vars, i).op = OpAdd
           /\ last.args[1] \in {At(vars, i).children[1], At(vars, i).children[2]}
           /\ At(vars, i).data # At(vars, At(vars, i).children[1]).data
                                 + At(vars, At(vars, i).children[2]).data
           /\ At(vars, last.args[1]).grad # None

\* C16: run_backward(root) leaves size() unchanged and leaves the gradient of
\* every node that is not reachable from root along operand edges exactly as
\* it was before the call.
C16_BackwardFrame ==
    [][last'.op = "backward" =>
           /\ Len(vars') = Len(vars)
           /\ \A i \in Handles :
                  ~Reaches(vars, last'.args[1], i) => At(vars', i).grad = At(vars, i).grad
      ]_allVars

\* A second pass has run from another root: a node it does not reach keeps
\* the gradient the first pass gave it.
C16_Witness ==
    /\ last.op = "backward"
    /\ prev.op = "backward"
    /\ IsOpNode(At(vars, last.args[1]))
    /\ \E i \in Handles :
           /\ ~Reaches(vars, last.args[1], i)
           /\ At(vars, i).grad # None

\* The loop is at the start of an iteration (or has just left the last one).
IterationStart == (loop.pc = "forward" /\ loop.fwd = 0) \/ loop.pc = "done"

\* C17: in the training loop, at the start of every iteration size() equals
\* checkpoint, every gradient is absent and every parameter handle refers to
\* a leaf with index < checkpoint; the store never holds more than checkpoint
\* plus the nodes of one forward pass.
C17_LoopInvariant ==
    /\ IterationStart =>
           /\ Len(vars) = checkpoint
           /\ AllAbsent(vars)
           /\ \A k \in 1..Len(loop.params) :
                  /\ loop.params[k] < checkpoint
                  /\ InRange(vars, loop.params[k])
                  /\ At(vars, loop.params[k]).op = OpValue
    /\ loop.pc \in {"forward", "update", "truncate"} =>
           /\ Len(vars) = checkpoint + loop.fwd
           /\ Len(vars) <= checkpoint + MaxForward
    /\ ~panicked

\* The third iteration starts: truncate(checkpoint) has just discarded the
\* second forward pass, after zero_grad, and a parameter holds an updated
\* value.
C17_Witness ==
    /\ loop.pc = "forward" /\ loop.fwd = 0
    /\ loop.epoch = 2
    /\ Discarded(last)
    /\ prev.op = "zero_grad"
    /\ Len(loop.params) = 2
    /\ Len(vars) = checkpoint
    /\ At(vars, loop.params[1]).data # At(vars, loop.params[2]).data

\* The derivative of node p's value in its k-th operand.
EdgeDerivative(vs, p, k) ==
    IF At(vs, p).op.tag = "ReLU" THEN (IF At(vs, p).data > 0 THEN 1 ELSE 0)
    ELSE LocalDerivative(vs, p, k)

\* The sum of EdgeDerivative over the operand slots of p that hold n.
EdgeSum(vs, p, n) ==
    LET ch == At(vs, p).children
    IN (IF Len(ch) >= 1 /\ ch[1] = n THEN EdgeDerivative(vs, p, 1) ELSE 0)
       + (IF Len(ch) >= 2 /\ ch[2] = n THEN EdgeDerivative(vs, p, 2) ELSE 0)

\* The gradient a pass from root leaves on node n of store vs: 1 on root, and
\* on any other node what it held in vs plus, for every reachable node p that
\* has it as an operand, p's new gradient times the derivative on that edge.
RECURSIVE NewGrad(_, _, _)
RECURSIVE SumParents(_, _, _, _)
NewGrad(vs, root, n) ==
    IF n = root THEN 1
    ELSE unwrap_or_default(At(vs, n).grad) + SumParents(vs, root, n, Len(vs) - 1)

SumParents(vs, root, n, p) ==
    IF p <= n THEN 0
    ELSE (IF Reaches(vs, root, p) THEN EdgeSum(vs, p, n) * NewGrad(vs, root, p) ELSE 0)
         + SumParents(vs, root, n, p - 1)

\* The pass from pass.root has run backward_single on every node of topo.
PassDone == pass.pc = "loop" /\ pass.i = 0

\* Root c is Add(a, b) of two different leaves.
IsSum(vs, c) ==
    /\ At(vs, c).op = OpAdd
    /\ At(vs, c).children[1] # At(vs, c).children[2]
    /\ ~IsOpNode(At(vs, At(vs, c).children[1]))
    /\ ~IsOpNode(At(vs, At(vs, c).children[2]))

\* C18: run_backward does not clear earlier gradients: when it returns, root's
\* gradient is exactly 1 whatever it was, and every other reachable node
\* holds what it held before the call plus the contributions of this pass;
\* a second run_backward(c) on c = a + b, right after a first one from absent
\* gradients, leaves grad(c) = 1 and grad(a) = grad(b) = 2.
C18_Accumulates ==
    PassDone =>
        /\ At(vars, pass.root).grad = Some(1)
        /\ \A n \in Handles :
               Reaches(vars, pass.root, n) =>
                   At(vars, n).grad = Some(NewGrad(pass.start, pass.root, n))
        /\ (/\ IsSum(vars, pass.root)
            /\ \A k \in 1..2 : At(pass.start, At(vars, pass.root).children[k]).grad = Some(1))
           => \A k \in 1..2 : At(vars, At(vars, pass.root).children[k]).grad = Some(2)

\* The second of two passes on c = a + b has finished: grad(c) = 1 and
\* grad(a) = grad(b) = 2.
C18_Witness ==
    /\ PassDone
    /\ calls = 2
    /\ Len(vars) = 3
    /\ pass.root = 2
    /\ IsSum(vars, 2)
    /\ At(pass.start, 2).grad = Some(1)
    /\ At(pass.start, 0).grad = Some(1)
    /\ At(pass.start, 1).grad = Some(1)
    /\ At(vars, 2).grad = Some(1)
    /\ At(vars, 0).grad = Some(2)
    /\ At(vars, 1).grad = Some(2)

====
